---------------------------- MODULE Spec2Model ----------------------------
(* Document normalisation and chunking pipeline of                         *)
(* 0-DataParsing/2-dataparsingpdf.py and 0-DataParsing/1-dataingestion.py. *)
(* A text is a sequence of characters; a character is a one-token string.  *)
EXTENDS Integers, Sequences, FiniteSets, TLC

VARIABLES
    text,       \* input text of clean_text / of the splitter
    cleaned,    \* clean_text(text), or None before the call
    method,     \* SmartPDFProcessor._clean_text(text), or None before the call
    twice,      \* clean_text(clean_text(text)), or None before the call
    cfg,        \* splitter configuration [size, overlap, seps]
    windows,    \* [called, chunks, err]: the result of split_text(text)
    pc,         \* position of main() in 2-dataparsingpdf.py
    file,       \* what the loaders find at pdf_path: [ok, mupdf_ok, contents]
    args,       \* the arguments main passes to SmartPDFProcessor(...)
    comparison, \* the dictionary compare_pdf_loaders returned
    processor,  \* the constructed SmartPDFProcessor, or NoProcessor
    loads,      \* number of loader.load() calls process_pdf has made
    smart_chunks, \* [returned, docs]: the list process_pdf returned
    raised,     \* the exception raised inside main's try block, or "none"
    log         \* the outcome lines main printed

pure_vars == <<text, cleaned, method, twice, cfg, windows>>
main_vars == <<pc, file, args, comparison, processor, loads, smart_chunks, raised, log>>
vars == <<text, cleaned, method, twice, cfg, windows,
          pc, file, args, comparison, processor, loads, smart_chunks, raised, log>>

\* "no value yet" for a text-valued variable: no text holds this token.
None == <<"None">>

-----------------------------------------------------------------------------
(* Characters.  The two ligature artifacts of the source are mojibake:     *)
(* "fi" is the two characters U+00EF U+00AC, "fl" the three characters     *)
(* U+00EF U+00AC U+201A.                                                   *)

U00EF == "u00EF"
U00AC == "u00AC"
U201A == "u201A"

FI_ARTIFACT == <<U00EF, U00AC>>
FL_ARTIFACT == <<U00EF, U00AC, U201A>>

Whitespace == {" ", "\t", "\n"}

-----------------------------------------------------------------------------
(* Python string primitives.                                               *)

IsPrefixAt(s, pat, i) ==
    /\ i + Len(pat) - 1 <= Len(s)
    /\ \A k \in 1..Len(pat) : s[i + k - 1] = pat[k]

Contains(s, pat) == \E i \in 1..Len(s) : IsPrefixAt(s, pat, i)

\* s[i:] as a sequence (i is 1-based).
Tail_from(s, i) == SubSeq(s, i, Len(s))

\* str.split() with no argument: the maximal runs of non-whitespace.
RECURSIVE SplitWords(_, _)
SplitWords(s, word) ==
    IF s = <<>> THEN (IF word = <<>> THEN <<>> ELSE <<word>>)
    ELSE IF Head(s) \in Whitespace
         THEN (IF word = <<>> THEN <<>> ELSE <<word>>) \o SplitWords(Tail(s), <<>>)
         ELSE SplitWords(Tail(s), Append(word, Head(s)))

Split(s) == SplitWords(s, <<>>)

\* sep.join(words)
RECURSIVE Join(_, _)
Join(sep, words) ==
    IF words = <<>> THEN <<>>
    ELSE IF Len(words) = 1 THEN words[1]
    ELSE words[1] \o sep \o Join(sep, Tail(words))

\* str.replace(old, new): leftmost non-overlapping occurrences, old non-empty.
RECURSIVE Replace(_, _, _)
Replace(s, old, new) ==
    IF s = <<>> THEN <<>>
    ELSE IF IsPrefixAt(s, old, 1)
         THEN new \o Replace(Tail_from(s, Len(old) + 1), old, new)
         ELSE <<Head(s)>> \o Replace(Tail(s), old, new)

\* str.strip()
RECURSIVE LStripCount(_)
LStripCount(s) ==
    IF s # <<>> /\ Head(s) \in Whitespace THEN 1 + LStripCount(Tail(s)) ELSE 0

RECURSIVE RStripCount(_)
RStripCount(s) ==
    IF s # <<>> /\ s[Len(s)] \in Whitespace
    THEN 1 + RStripCount(SubSeq(s, 1, Len(s) - 1)) ELSE 0

Strip(s) ==
    LET l == LStripCount(s)
    IN  IF l = Len(s) THEN <<>> ELSE SubSeq(s, l + 1, Len(s) - RStripCount(s))

-----------------------------------------------------------------------------
(* The normaliser.                                                         *)

\* A single pass of text.replace("  ", " "): a plausible but wrong collapse.
clean_text_one_pass(t) ==
    Replace(Replace(Replace(t, <<" ", " ">>, <<" ">>), FI_ARTIFACT, <<"f", "i">>),
            FL_ARTIFACT, <<"f", "l">>)

\* " ".join(text.split(" ")): an explicit separator keeps the empty words.
RECURSIVE SplitOnSpace(_, _)
SplitOnSpace(s, word) ==
    IF s = <<>> THEN <<word>>
    ELSE IF Head(s) = " "
         THEN <<word>> \o SplitOnSpace(Tail(s), <<>>)
         ELSE SplitOnSpace(Tail(s), Append(word, Head(s)))

SmartPDFProcessor_clean_text_split_on_space(t) ==
    Replace(Replace(Join(<<" ">>, SplitOnSpace(t, <<>>)), FI_ARTIFACT, <<"f", "i">>),
            FL_ARTIFACT, <<"f", "l">>)

\* clean_text(text)
clean_text(t) ==
    Replace(Replace(Join(<<" ">>, Split(t)), FI_ARTIFACT, <<"f", "i">>),
            FL_ARTIFACT, <<"f", "l">>)

\* SmartPDFProcessor._clean_text(self, text)
SmartPDFProcessor_clean_text(t) ==
    Replace(Replace(Join(<<" ">>, Split(t)), FI_ARTIFACT, <<"f", "i">>),
            FL_ARTIFACT, <<"f", "l">>)

-----------------------------------------------------------------------------
(* The text splitter the scripts construct: RecursiveCharacterTextSplitter *)
(* with keep_separator left at its default (True), length_function = len.  *)
(* A piece is a substring of the text being split; beside its characters s *)
(* it records at, the 0-based offset of its first character in that text.  *)
(* A window is a returned chunk: s and at describe the returned string,    *)
(* raw_at and raw_len the joined pieces before whitespace was stripped.    *)

\* The list of SmartPDFProcessor without its last entry, the empty separator.
SmartSeparators_no_char_fallback == << <<"\n", "\n">>, <<"\n">>, <<" ">> >>

\* The separator lists of the three constructions.
SmartSeparators == << <<"\n", "\n">>, <<"\n">>, <<" ">>, <<>> >>
DemoSeparators == << <<" ">> >>
SimpleSeparators == << <<" ">>, <<"\n">>, <<>>, <<"\n", "\n">> >>

EmitPiece(cur) == IF cur.s = <<>> THEN <<>> ELSE <<cur>>

\* _split_text_with_regex(text, separator, keep_separator=True), separator
\* non-empty: each separator starts the piece that follows it; empty pieces
\* are dropped.
RECURSIVE SplitKeep(_, _, _, _, _)
SplitKeep(s, base, i, sep, cur) ==
    IF i > Len(s) THEN EmitPiece(cur)
    ELSE IF IsPrefixAt(s, sep, i)
         THEN EmitPiece(cur)
              \o SplitKeep(s, base, i + Len(sep), sep, [s |-> sep, at |-> base + i - 1])
         ELSE SplitKeep(s, base, i + 1, sep, [cur EXCEPT !.s = Append(@, s[i])])

\* _split_text_with_regex(text, separator, keep_separator): list(text) for the
\* empty separator.
split_text_with_regex(piece, sep) ==
    IF sep # <<>>
    THEN SplitKeep(piece.s, piece.at, 1, sep, [s |-> <<>>, at |-> piece.at])
    ELSE [k \in 1..Len(piece.s) |-> [s |-> <<piece.s[k]>>, at |-> piece.at + k - 1]]

\* The separator-selection loop of _split_text: the first separator that is
\* empty or occurs in the text; by default the last one, with nothing left.
RECURSIVE SelectSeparator(_, _, _)
SelectSeparator(s, separators, i) ==
    IF i > Len(separators)
    THEN [separator |-> separators[Len(separators)], new_separators |-> <<>>]
    ELSE IF separators[i] = <<>>
         THEN [separator |-> <<>>, new_separators |-> <<>>]
         ELSE IF Contains(s, separators[i])
              THEN [separator |-> separators[i],
                    new_separators |-> SubSeq(separators, i + 1, Len(separators))]
              ELSE SelectSeparator(s, separators, i + 1)

\* separator.join(docs) of pieces, as a string.
RECURSIVE JoinPieces(_, _)
JoinPieces(sep, docs) ==
    IF docs = <<>> THEN <<>>
    ELSE IF Len(docs) = 1 THEN docs[1].s
    ELSE docs[1].s \o sep \o JoinPieces(sep, Tail(docs))

\* _join_docs(docs, separator): the joined, stripped text as a sequence of at
\* most one window (None when nothing but whitespace is left).
join_docs(docs, separator) ==
    LET joined == JoinPieces(separator, docs)
        stripped == Strip(joined)
    IN  IF stripped = <<>> THEN <<>>
        ELSE << [s |-> stripped,
                 at |-> docs[1].at + LStripCount(joined),
                 raw_at |-> docs[1].at,
                 raw_len |-> Len(joined)] >>

\* The "keep on popping" loop of _merge_splits; current_doc[0] of an empty
\* list raises IndexError (err).
RECURSIVE PopLoop(_, _, _, _, _)
PopLoop(current_doc, total, len_d, separator_len, c) ==
    IF \/ total > c.overlap
       \/ /\ total + len_d + (IF Len(current_doc) > 0 THEN separator_len ELSE 0) > c.size
          /\ total > 0
    THEN IF current_doc = <<>>
         THEN [current_doc |-> current_doc, total |-> total, err |-> TRUE]
         ELSE PopLoop(Tail(current_doc),
                      total - (Len(current_doc[1].s)
                               + (IF Len(current_doc) > 1 THEN separator_len ELSE 0)),
                      len_d, separator_len, c)
    ELSE [current_doc |-> current_doc, total |-> total, err |-> FALSE]

\* An iteration that, having emitted a chunk, goes on to the next piece
\* without appending the current one.
MergeStep_drops_piece(st, d, separator, c) ==
    LET separator_len == Len(separator)
        len_d == Len(d.s)
        over == st.total + len_d
                + (IF Len(st.current_doc) > 0 THEN separator_len ELSE 0) > c.size
        emit == over /\ Len(st.current_doc) > 0
    IN  IF emit
        THEN [docs |-> st.docs \o join_docs(st.current_doc, separator),
              current_doc |-> <<>>, total |-> 0, err |-> FALSE]
        ELSE [docs |-> st.docs,
              current_doc |-> Append(st.current_doc, d),
              total |-> st.total + len_d
                        + (IF Len(st.current_doc) > 0 THEN separator_len ELSE 0),
              err |-> FALSE]

\* One iteration of the for loop of _merge_splits.
MergeStep(st, d, separator, c) ==
    LET separator_len == Len(separator)
        len_d == Len(d.s)
        over == st.total + len_d
                + (IF Len(st.current_doc) > 0 THEN separator_len ELSE 0) > c.size
        emit == over /\ Len(st.current_doc) > 0
        popped == IF emit
                  THEN PopLoop(st.current_doc, st.total, len_d, separator_len, c)
                  ELSE [current_doc |-> st.current_doc, total |-> st.total, err |-> FALSE]
        appended == Append(popped.current_doc, d)
    IN  [docs |-> IF emit THEN st.docs \o join_docs(st.current_doc, separator)
                  ELSE st.docs,
         current_doc |-> appended,
         total |-> popped.total + len_d
                   + (IF Len(appended) > 1 THEN separator_len ELSE 0),
         err |-> popped.err]

RECURSIVE MergeLoop(_, _, _, _, _)
MergeLoop(splits, k, st, separator, c) ==
    IF st.err \/ k > Len(splits) THEN st
    ELSE MergeLoop(splits, k + 1, MergeStep(st, splits[k], separator, c), separator, c)

\* _merge_splits(splits, separator): [chunks, err].
merge_splits(splits, separator, c) ==
    LET st == MergeLoop(splits, 1,
                        [docs |-> <<>>, current_doc |-> <<>>, total |-> 0, err |-> FALSE],
                        separator, c)
    IN  IF st.err THEN [chunks |-> <<>>, err |-> TRUE]
        ELSE [chunks |-> st.docs \o join_docs(st.current_doc, separator), err |-> FALSE]

RawWindow(piece) ==
    [s |-> piece.s, at |-> piece.at, raw_at |-> piece.at, raw_len |-> Len(piece.s)]

Extend(acc, more) ==
    [chunks |-> acc.chunks \o more.chunks, err |-> acc.err \/ more.err]

FlushGood(acc, good, c) ==
    IF good # <<>> THEN Extend(acc, merge_splits(good, <<>>, c)) ELSE acc

\* RecursiveCharacterTextSplitter._split_text(text, separators): [chunks, err].
RECURSIVE split_text_rec(_, _, _)
RECURSIVE SplitLoop(_, _, _, _, _, _)
SplitLoop(splits, k, good, acc, new_separators, c) ==
    IF acc.err THEN acc
    ELSE IF k > Len(splits) THEN FlushGood(acc, good, c)
    ELSE IF Len(splits[k].s) < c.size
         THEN SplitLoop(splits, k + 1, Append(good, splits[k]), acc, new_separators, c)
         ELSE LET flushed == FlushGood(acc, good, c)
                  here == IF new_separators = <<>>
                          THEN [chunks |-> <<RawWindow(splits[k])>>, err |-> FALSE]
                          ELSE split_text_rec(splits[k], new_separators, c)
              IN  SplitLoop(splits, k + 1, <<>>, Extend(flushed, here), new_separators, c)

split_text_rec(piece, separators, c) ==
    LET sel == SelectSeparator(piece.s, separators, 1)
        splits == split_text_with_regex(piece, sel.separator)
    IN  SplitLoop(splits, 1, <<>>, [chunks |-> <<>>, err |-> FALSE], sel.new_separators, c)

\* The same construction with chunk_size passed for chunk_overlap as well.
RecursiveCharacterTextSplitter_overlap_is_size(chunk_size, chunk_overlap, separators) ==
    [size |-> chunk_size, overlap |-> chunk_size, seps |-> separators]

\* RecursiveCharacterTextSplitter(chunk_size=..., chunk_overlap=...,
\* separators=...): the splitter's settings.
RecursiveCharacterTextSplitter(chunk_size, chunk_overlap, separators) ==
    [size |-> chunk_size, overlap |-> chunk_overlap, seps |-> separators]

\* RecursiveCharacterTextSplitter.split_text(text)
split_text(t, c) == split_text_rec([s |-> t, at |-> 0], c.seps, c)

-----------------------------------------------------------------------------
(* Bounded inputs.                                                         *)

MaxTextLen == 4

CleanAlphabet == Whitespace \cup {U00EF, U00AC, U201A, "f", "a"}

RECURSIVE Texts(_, _)
Texts(alphabet, n) ==
    IF n = 0 THEN {<<>>}
    ELSE LET shorter == Texts(alphabet, n - 1)
         IN  shorter \cup {Append(t, c) : t \in {u \in shorter : Len(u) = n - 1}, c \in alphabet}

NoCfg == [size |-> 0, overlap |-> 0, seps |-> <<>>]
NoWindows == [called |-> FALSE, chunks |-> <<>>, err |-> FALSE]

NoFile == [ok |-> FALSE, mupdf_ok |-> FALSE, contents |-> <<>>]
NoArgs == [chunk_size |-> 0, chunk_overlap |-> 0]
NoProcessor == [constructed |-> FALSE, chunk_size |-> 0, chunk_overlap |-> 0,
                text_splitter |-> NoCfg]
NoChunks == [returned |-> FALSE, docs |-> <<>>]

\* main() is not running (the specifications of the pure functions).
MainIdle ==
    /\ pc = "idle"
    /\ file = NoFile
    /\ args = NoArgs
    /\ comparison = <<>>
    /\ processor = NoProcessor
    /\ loads = 0
    /\ smart_chunks = NoChunks
    /\ raised = "none"
    /\ log = <<>>

-----------------------------------------------------------------------------
(* Specification of the normaliser: the input is any bounded text, the     *)
(* actions are the calls of clean_text and of the method _clean_text.      *)

InitClean ==
    /\ text \in Texts(CleanAlphabet, MaxTextLen)
    /\ cleaned = None
    /\ method = None
    /\ twice = None
    /\ cfg = NoCfg
    /\ windows = NoWindows
    /\ MainIdle

CallCleanText ==
    /\ cleaned = None
    /\ cleaned' = clean_text(text)
    /\ UNCHANGED <<text, method, twice, cfg, windows, main_vars>>

CallMethodCleanText ==
    /\ method = None
    /\ method' = SmartPDFProcessor_clean_text(text)
    /\ UNCHANGED <<text, cleaned, twice, cfg, windows, main_vars>>

CallCleanTextAgain ==
    /\ cleaned # None
    /\ twice = None
    /\ twice' = clean_text(cleaned)
    /\ UNCHANGED <<text, cleaned, method, cfg, windows, main_vars>>

NextClean == CallCleanText \/ CallMethodCleanText \/ CallCleanTextAgain

SpecClean == InitClean /\ [][NextClean]_vars

-----------------------------------------------------------------------------
(* Specification of the splitter: the input is any bounded text and any    *)
(* configuration with size > overlap >= 0, or the documented example; the  *)
(* actions are split_text under each separator list the scripts use.       *)

MaxChunkTextLen == 7
MaxChunkSize == 4

ChunkAlphabet == {"a", " ", "\n"}

\* "A B C D E F G H I J", split with size 5 and overlap 2.
ExampleText ==
    <<"A", " ", "B", " ", "C", " ", "D", " ", "E", " ", "F", " ", "G", " ", "H", " ",
      "I", " ", "J">>
ExampleCfg == [size |-> 5, overlap |-> 2, seps |-> <<>>]

InitChunk ==
    /\ \/ /\ text \in Texts(ChunkAlphabet, MaxChunkTextLen)
          /\ \E size \in 1..MaxChunkSize : \E overlap \in 0..(size - 1) :
                cfg = [size |-> size, overlap |-> overlap, seps |-> <<>>]
       \/ /\ text = ExampleText
          /\ cfg = ExampleCfg
    /\ cleaned = None
    /\ method = None
    /\ twice = None
    /\ windows = NoWindows
    /\ MainIdle

SplitWith(separators) ==
    /\ ~windows.called
    /\ LET splitter == RecursiveCharacterTextSplitter(cfg.size, cfg.overlap, separators)
           r == split_text(text, splitter)
       IN  /\ cfg' = [cfg EXCEPT !.seps = separators]
           /\ windows' = [called |-> TRUE, chunks |-> r.chunks, err |-> r.err]
    /\ UNCHANGED <<text, cleaned, method, twice, main_vars>>

\* SmartPDFProcessor.text_splitter
SplitSmart == SplitWith(SmartSeparators)

\* demonstrate_recursive_text_splitter: recursive_splitter.split_text(text)
SplitDemo == SplitWith(DemoSeparators)

\* demonstrate_recursive_text_splitter: splitter.split_text(simple_text)
SplitSimple == SplitWith(SimpleSeparators)

NextChunk == SplitSmart \/ SplitDemo \/ SplitSimple

SpecChunk == InitChunk /\ [][NextChunk]_vars

-----------------------------------------------------------------------------
(* SmartPDFProcessor, compare_pdf_loaders and main of 2-dataparsingpdf.py. *)

\* Pages shorter than this after cleaning are skipped.
MinPageLength == 50

\* The arguments of main.
MainChunkSize == 1000
MainChunkOverlap == 100

PdfPath == "data/pdf/th.pdf"

\* TextSplitter.__init__, reached through SmartPDFProcessor.__init__: an
\* overlap larger than the size raises ValueError; whether a negative overlap
\* or a size <= 0 is rejected depends on the installed splitter release, so
\* both outcomes are possible.
ConstructOutcomes(chunk_size, chunk_overlap) ==
    IF chunk_overlap > chunk_size THEN {"ValueError"}
    ELSE IF chunk_size <= 0 \/ chunk_overlap < 0 THEN {"ok", "ValueError"}
    ELSE {"ok"}

\* An __init__ that only stores its arguments and the splitter's settings,
\* without constructing (and so validating) the splitter.
SmartPDFProcessor_init_unvalidated(chunk_size, chunk_overlap) ==
    {[raised |-> "none",
      self |-> [constructed |-> TRUE,
                chunk_size |-> chunk_size,
                chunk_overlap |-> chunk_overlap,
                text_splitter |-> [size |-> chunk_size, overlap |-> chunk_overlap,
                                   seps |-> SmartSeparators]]]}

\* SmartPDFProcessor.__init__(chunk_size, chunk_overlap): the possible
\* outcomes, each the exception raised ("none" when it returns) and the
\* object constructed.
SmartPDFProcessor_init(chunk_size, chunk_overlap) ==
    {IF outcome = "ok"
     THEN [raised |-> "none",
           self |-> [constructed |-> TRUE,
                     chunk_size |-> chunk_size,
                     chunk_overlap |-> chunk_overlap,
                     text_splitter |-> RecursiveCharacterTextSplitter(
                                           chunk_size, chunk_overlap, SmartSeparators)]]
     ELSE [raised |-> outcome, self |-> NoProcessor] :
        outcome \in ConstructOutcomes(chunk_size, chunk_overlap)}

\* PyPDFLoader(pdf_path).load(): one Document per page, metadata source and
\* 0-based page.
PyPDFLoader_load(f) ==
    [i \in 1..Len(f.contents) |->
        [page_content |-> f.contents[i],
         metadata |-> [source |-> PdfPath, page |-> i - 1]]]

\* PyMuPDFLoader(pdf_path).load()
PyMuPDFLoader_load(f) ==
    [i \in 1..Len(f.contents) |->
        [page_content |-> f.contents[i],
         metadata |-> [source |-> PdfPath, file_path |-> PdfPath, page |-> i - 1,
                       total_pages |-> Len(f.contents)]]]

\* {**a, **b}: the keys of both, b's value where both have the key.
Spread(a, b) ==
    [k \in DOMAIN a \cup DOMAIN b |-> IF k \in DOMAIN b THEN b[k] ELSE a[k]]

\* TextSplitter.create_documents(texts=[t], metadatas=[md]): one Document per
\* chunk of split_text(t), each with a copy of md.
create_documents(t, md, c) ==
    LET r == split_text(t, c)
    IN  [docs |-> [i \in 1..Len(r.chunks) |->
                      [page_content |-> r.chunks[i].s, metadata |-> md]],
         err |-> r.err]

\* The metadata without the page's own (a dictionary built afresh).
ChunkMetadata_not_inherited(page, page_num, pages, cleaned_text) ==
    [page |-> page_num + 1,
     total_pages |-> Len(pages),
     chunk_method |-> "smart_pdf_processor",
     char_count |-> Len(cleaned_text)]

\* The metadata with the length of the raw page text as char_count.
ChunkMetadata_raw_char_count(page, page_num, pages, cleaned_text) ==
    Spread(page.metadata,
           [page |-> page_num + 1,
            total_pages |-> Len(pages),
            chunk_method |-> "smart_pdf_processor",
            char_count |-> Len(page.page_content)])

\* The metadata process_pdf gives the chunks of one page.
ChunkMetadata(page, page_num, pages, cleaned_text) ==
    Spread(page.metadata,
           [page |-> page_num + 1,
            total_pages |-> Len(pages),
            chunk_method |-> "smart_pdf_processor",
            char_count |-> Len(cleaned_text)])

\* The same test on the raw page text instead of the cleaned one.
SkipPage_raw(page, cleaned_text) == Len(Strip(page.page_content)) < MinPageLength

\* The "skip nearly empty pages" test of process_pdf.
SkipPage(page, cleaned_text) == Len(Strip(cleaned_text)) < MinPageLength

\* The for loop numbering the pages it keeps, the skipped ones not counted.
RECURSIVE ProcessPages_renumbered(_, _, _, _)
ProcessPages_renumbered(self, pages, k, processed_chunks) ==
    IF k > Len(pages) THEN [docs |-> processed_chunks, err |-> FALSE]
    ELSE LET page == pages[k]
             page_num == Cardinality({processed_chunks[i].metadata["page"] :
                                         i \in 1..Len(processed_chunks)})
             cleaned_text == SmartPDFProcessor_clean_text(page.page_content)
         IN  IF SkipPage(page, cleaned_text)
             THEN ProcessPages_renumbered(self, pages, k + 1, processed_chunks)
             ELSE LET chunks == create_documents(
                                    cleaned_text,
                                    ChunkMetadata(page, page_num, pages, cleaned_text),
                                    self.text_splitter)
                  IN  IF chunks.err THEN [docs |-> <<>>, err |-> TRUE]
                      ELSE ProcessPages_renumbered(self, pages, k + 1,
                                                   processed_chunks \o chunks.docs)

\* The for loop of process_pdf, from page k on: [docs, err].
RECURSIVE ProcessPages(_, _, _, _)
ProcessPages(self, pages, k, processed_chunks) ==
    IF k > Len(pages) THEN [docs |-> processed_chunks, err |-> FALSE]
    ELSE LET page == pages[k]
             page_num == k - 1
             cleaned_text == SmartPDFProcessor_clean_text(page.page_content)
         IN  IF SkipPage(page, cleaned_text)
             THEN ProcessPages(self, pages, k + 1, processed_chunks)
             ELSE LET chunks == create_documents(
                                    cleaned_text,
                                    ChunkMetadata(page, page_num, pages, cleaned_text),
                                    self.text_splitter)
                  IN  IF chunks.err THEN [docs |-> <<>>, err |-> TRUE]
                      ELSE ProcessPages(self, pages, k + 1,
                                        processed_chunks \o chunks.docs)

\* A process_pdf that swallows a failure of the loader and returns no chunks.
process_pdf_swallows(self, f) ==
    LET r == ProcessPages(self, PyPDFLoader_load(f), 1, <<>>)
    IN  IF r.err THEN [raised |-> "IndexError", docs |-> <<>>]
        ELSE [raised |-> "none", docs |-> r.docs]

\* SmartPDFProcessor.process_pdf(pdf_path): "LoadError" when the loader
\* raises, "IndexError" when the splitter does, else the chunks.
process_pdf(self, f) ==
    IF ~f.ok THEN [raised |-> "LoadError", docs |-> <<>>]
    ELSE LET r == ProcessPages(self, PyPDFLoader_load(f), 1, <<>>)
         IN  IF r.err THEN [raised |-> "IndexError", docs |-> <<>>]
             ELSE [raised |-> "none", docs |-> r.docs]

\* One entry of the dictionary of compare_pdf_loaders.
LoaderEntry(ok, docs) ==
    IF ok
    THEN [success |-> TRUE,
          pages |-> Len(docs),
          first_page_length |-> IF docs # <<>> THEN Len(docs[1].page_content) ELSE 0,
          metadata_keys |-> IF docs # <<>> THEN DOMAIN docs[1].metadata ELSE {}]
    ELSE [success |-> FALSE, error |-> "LoadError"]

\* Both loaders under one try: a failure of the first ends the comparison.
compare_pdf_loaders_single_try(f) ==
    IF f.ok
    THEN [pypdf |-> LoaderEntry(TRUE, PyPDFLoader_load(f)),
          pymupdf |-> LoaderEntry(f.mupdf_ok, PyMuPDFLoader_load(f))]
    ELSE [pypdf |-> LoaderEntry(FALSE, <<>>)]

\* compare_pdf_loaders(pdf_path)
compare_pdf_loaders(f) ==
    [pypdf |-> LoaderEntry(f.ok, PyPDFLoader_load(f)),
     pymupdf |-> LoaderEntry(f.mupdf_ok, PyMuPDFLoader_load(f))]

-----------------------------------------------------------------------------
(* The PDF files and constructor arguments main is run with.               *)

MaxPages == 3
WordPeriod == 6
ShortPageLen == 10
LongPageLen == 60
SmallChunkSize == 20
SmallChunkOverlap == 5

\* n characters of text: words separated by single spaces.
Filler(n) == [i \in 1..n |-> IF i % WordPeriod = 0 THEN " " ELSE "a"]

BlankPage == <<>>
ShortPage == Filler(ShortPageLen)
\* MinPageLength characters between its first and last letter, fewer once
\* its whitespace runs are collapsed.
PaddedPage ==
    <<"\n", "a", " ", "\n", " ">> \o Filler(MinPageLength - 5) \o <<"a", " ", "\n">>
\* Exactly MinPageLength characters once cleaned.
ExactPage == Filler(MinPageLength - 1) \o <<"a">>
\* A long page with a ligature artifact and a whitespace run.
LigaturePage == <<"a">> \o FL_ARTIFACT \o <<" ", "\n">> \o Filler(LongPageLen) \o <<"a">>

PagePalette == {BlankPage, ShortPage, PaddedPage, ExactPage, LigaturePage}

RECURSIVE PageLists(_)
PageLists(n) ==
    IF n = 0 THEN {<<>>}
    ELSE LET shorter == PageLists(n - 1)
         IN  shorter \cup {Append(l, q) : l \in {u \in shorter : Len(u) = n - 1},
                                          q \in PagePalette}

Files ==
    {[ok |-> FALSE, mupdf_ok |-> FALSE, contents |-> <<>>]}
    \cup {[ok |-> FALSE, mupdf_ok |-> TRUE, contents |-> l] :
            l \in PageLists(MaxPages)}
    \cup {[ok |-> TRUE, mupdf_ok |-> m, contents |-> l] :
            m \in BOOLEAN, l \in PageLists(MaxPages)}

ArgSet ==
    {[chunk_size |-> MainChunkSize, chunk_overlap |-> MainChunkOverlap],
     [chunk_size |-> SmallChunkSize, chunk_overlap |-> SmallChunkOverlap],
     [chunk_size |-> SmallChunkSize, chunk_overlap |-> 0],
     [chunk_size |-> SmallChunkSize, chunk_overlap |-> SmallChunkSize],
     [chunk_size |-> SmallChunkSize, chunk_overlap |-> SmallChunkSize + 1],
     [chunk_size |-> SmallChunkSize, chunk_overlap |-> 0 - 1]}

\* An excerpt of main's raw_text (lines 216-217).
raw_text ==
    <<"e", "f", U00EF, U00AC, "c", "i", "e", "n", "c", "y", " ",
      "w", "o", "r", "k", U00EF, U00AC, U201A, "o", "w", "\n",
      "o", "p", "t", "\n", "\n">>

-----------------------------------------------------------------------------
(* Specification of main(): compare the loaders, then inside one try block *)
(* construct the processor and process the PDF, report or log the error,   *)
(* and go on to the text cleaning demo.                                    *)

Init ==
    /\ text = raw_text
    /\ cleaned = None
    /\ method = None
    /\ twice = None
    /\ cfg = NoCfg
    /\ windows = NoWindows
    /\ pc = "compare"
    /\ file \in Files
    /\ args \in ArgSet
    /\ comparison = <<>>
    /\ processor = NoProcessor
    /\ loads = 0
    /\ smart_chunks = NoChunks
    /\ raised = "none"
    /\ log = <<>>

\* comparison = compare_pdf_loaders(pdf_path)
MainCompare ==
    /\ pc = "compare"
    /\ comparison' = compare_pdf_loaders(file)
    /\ pc' = "construct"
    /\ UNCHANGED <<pure_vars, file, args, processor, loads, smart_chunks, raised, log>>

\* processor = SmartPDFProcessor(chunk_size=..., chunk_overlap=...)
MainConstruct ==
    /\ pc = "construct"
    /\ \E made \in SmartPDFProcessor_init(args.chunk_size, args.chunk_overlap) :
          IF made.raised = "none"
          THEN /\ processor' = made.self
               /\ pc' = "process"
               /\ UNCHANGED raised
          ELSE /\ raised' = made.raised
               /\ pc' = "except"
               /\ UNCHANGED processor
    /\ UNCHANGED <<pure_vars, file, args, comparison, loads, smart_chunks, log>>

\* smart_chunks = processor.process_pdf(pdf_path)
MainProcess ==
    /\ pc = "process"
    /\ LET r == process_pdf(processor, file)
       IN  IF r.raised = "none"
           THEN /\ smart_chunks' = [returned |-> TRUE, docs |-> r.docs]
                /\ pc' = "report"
                /\ UNCHANGED raised
           ELSE /\ raised' = r.raised
                /\ pc' = "except"
                /\ UNCHANGED smart_chunks
    /\ loads' = loads + 1
    /\ UNCHANGED <<pure_vars, file, args, comparison, processor, log>>

\* print(f"Processed into {len(smart_chunks)} smart chunks") and the sample
MainReport ==
    /\ pc = "report"
    /\ log' = Append(log, "processed")
    /\ pc' = "clean_demo"
    /\ UNCHANGED <<pure_vars, file, args, comparison, processor, loads, smart_chunks,
                   raised>>

\* except Exception as e: print(f"Processing error: {e}")
MainExcept ==
    /\ pc = "except"
    /\ log' = Append(log, "processing error")
    /\ pc' = "clean_demo"
    /\ UNCHANGED <<pure_vars, file, args, comparison, processor, loads, smart_chunks,
                   raised>>

\* cleaned = clean_text(raw_text)
MainCleanDemo ==
    /\ pc = "clean_demo"
    /\ cleaned' = clean_text(text)
    /\ pc' = "done"
    /\ UNCHANGED <<text, method, twice, cfg, windows, file, args, comparison,
                   processor, loads, smart_chunks, raised, log>>

Next ==
    \/ MainCompare
    \/ MainConstruct
    \/ MainProcess
    \/ MainReport
    \/ MainExcept
    \/ MainCleanDemo

Spec == Init /\ [][Next]_vars

-----------------------------------------------------------------------------
(* Properties of the splitter.                                             *)

Split_done == windows.called /\ ~windows.err

NWindows == Len(windows.chunks)

\* Offsets are 0-based; End is the offset just past the window.
End(w) == w.at + Len(w.s)
RawEnd(w) == w.raw_at + w.raw_len

\* The ORIGINAL statement of C2: whatever the separator list, every chunk has
\* length <= size.
C2_Original_EveryChunkWithinSize ==
    Split_done => \A i \in 1..NWindows : Len(windows.chunks[i].s) <= cfg.size

\* C2 (amended): with a separator list that holds the empty separator (the
\* list of SmartPDFProcessor) every chunk has length <= size; with the list
\* [" "] a chunk is longer than size only when it is one unsplittable piece:
\* it has no space after its first character.
C2_ChunkWithinSize ==
    Split_done =>
        \A i \in 1..NWindows :
            LET w == windows.chunks[i]
            IN  \/ Len(w.s) <= cfg.size
                \/ /\ cfg.seps = DemoSeparators
                   /\ ~Contains(Tail(w.s), <<" ">>)

C2_Witness ==
    /\ Split_done
    /\ cfg.seps = SmartSeparators
    /\ Len(text) > cfg.size
    /\ ~Contains(text, <<" ">>)
    /\ NWindows > 1
    /\ \E i \in 1..NWindows : Len(windows.chunks[i].s) = cfg.size

Max0(n) == IF n > 0 THEN n ELSE 0

\* The windows the example yields: "A B C", "C D", "D E", ..., "I J".
ExampleWindows ==
    << <<"A", " ", "B", " ", "C">>, <<"C", " ", "D">>, <<"D", " ", "E">>,
       <<"E", " ", "F">>, <<"F", " ", "G">>, <<"G", " ", "H">>, <<"H", " ", "I">>,
       <<"I", " ", "J">> >>

IsExample ==
    /\ text = ExampleText
    /\ cfg = [ExampleCfg EXCEPT !.seps = DemoSeparators]

C7_Original_Contiguous ==
    (Split_done /\ text # <<>> /\ Len(text) > cfg.size) =>
        /\ NWindows > 1
        /\ \A i \in 1..(NWindows - 1) :
              windows.chunks[i + 1].at <= End(windows.chunks[i])

\* C7 (amended): every window is the substring of t at its offset; window i+1
\* starts at or before the offset where window i ends, or only whitespace of t
\* lies between them; and when the separator list holds the empty separator
\* and t is longer than size between its first and last non-whitespace
\* character, there is more than one window.
C7_OnlyWhitespaceSkipped ==
    Split_done =>
        /\ \A i \in 1..NWindows :
              LET w == windows.chunks[i]
              IN  w.s = SubSeq(text, w.at + 1, End(w))
        /\ \A i \in 1..(NWindows - 1) :
              \A o \in End(windows.chunks[i])..(windows.chunks[i + 1].at - 1) :
                  text[o + 1] \in Whitespace
        /\ (NWindows > 0) =>
              /\ \A o \in 0..(windows.chunks[1].at - 1) : text[o + 1] \in Whitespace
              /\ \A o \in End(windows.chunks[NWindows])..(Len(text) - 1) :
                    text[o + 1] \in Whitespace
        /\ (cfg.seps # DemoSeparators /\ Len(Strip(text)) > cfg.size) => NWindows > 1

C7_Witness ==
    /\ Split_done
    /\ cfg.seps = SmartSeparators
    /\ Len(text) > cfg.size
    /\ text = Strip(text)
    /\ NWindows > 1
    /\ \E i \in 1..(NWindows - 1) : windows.chunks[i + 1].at > End(windows.chunks[i])
    /\ \E i \in 1..(NWindows - 1) : windows.chunks[i + 1].at < End(windows.chunks[i])

-----------------------------------------------------------------------------
(* Properties of SmartPDFProcessor and main.                               *)

Returned == smart_chunks.returned
NDocs == Len(smart_chunks.docs)

PastTry == pc \in {"report", "except", "clean_demo", "done"}

\* C1: process_pdf returns no chunk derived from a page whose cleaned content
\* is shorter than the minimum length of 50 characters.
C1_NoChunkFromShortPage ==
    Returned =>
        LET long_enough ==
                {k \in 1..Len(file.contents) :
                    Len(SmartPDFProcessor_clean_text(file.contents[k])) >= MinPageLength}
        IN  \A i \in 1..NDocs :
                /\ smart_chunks.docs[i].metadata["page"] \in long_enough
                /\ smart_chunks.docs[i].metadata["char_count"] >= MinPageLength

C1_Witness ==
    /\ Returned
    /\ NDocs > 0
    /\ \E k \in 1..Len(file.contents) :
          /\ Len(Strip(file.contents[k])) >= MinPageLength
          /\ Len(SmartPDFProcessor_clean_text(file.contents[k])) < MinPageLength
    /\ \E k \in 1..Len(file.contents) :
          Len(SmartPDFProcessor_clean_text(file.contents[k])) = MinPageLength

\* The ORIGINAL statement of C8: a pair violating 0 <= overlap < size fails at
\* construction, so a constructed processor has overlap < size.  It is stated
\* for the pairs with size > 0 and overlap >= 0, whose fate does not depend
\* on the splitter release.
C8_Original_InvalidPairRejected ==
    (processor.constructed /\ processor.chunk_size > 0 /\ processor.chunk_overlap >= 0) =>
        processor.chunk_overlap < processor.chunk_size

\* C8 (amended): a pair with overlap > size fails at construction with the
\* splitter's ValueError, which main logs, so no process_pdf call runs with
\* such a pair; a pair with overlap = size > 0 is accepted and processed.
C8_OverlapAboveSizeRejected ==
    /\ processor.constructed => processor.chunk_overlap <= processor.chunk_size
    /\ args.chunk_overlap > args.chunk_size =>
          /\ ~processor.constructed
          /\ loads = 0
          /\ ~Returned
          /\ PastTry => raised = "ValueError"
          /\ pc = "done" => log = <<"processing error">>
    /\ (args.chunk_overlap = args.chunk_size /\ args.chunk_size > 0 /\ PastTry) =>
          /\ processor.constructed
          /\ loads = 1
          /\ file.ok => Returned

C8_Witness ==
    /\ pc = "done"
    /\ args.chunk_overlap > args.chunk_size
    /\ raised = "ValueError"
    /\ file.ok
    /\ file.contents # <<>>

C10_Original_CarriesChunkIndex ==
    Returned =>
        \A i \in 1..NDocs :
            {"chunk_index", "char_count", "page", "source"}
                \subseteq DOMAIN smart_chunks.docs[i].metadata

\* C10 (amended): every chunk's metadata carries char_count, total_pages,
\* chunk_method, the source inherited from its parent page and page, the
\* 1-based position that replaces the loader's 0-based index; there is no
\* chunk_index.
C10_ChunkMetadata ==
    Returned =>
        \A i \in 1..NDocs :
            LET md == smart_chunks.docs[i].metadata
            IN  /\ DOMAIN md = {"source", "page", "total_pages", "chunk_method",
                                "char_count"}
                /\ md["source"] = PdfPath
                /\ md["page"] \in 1..Len(file.contents)
                /\ md["page"] = PyPDFLoader_load(file)[md["page"]].metadata["page"] + 1
                /\ md["char_count"] \in Nat
                /\ md["chunk_method"] = "smart_pdf_processor"

C10_Witness ==
    /\ Returned
    /\ NDocs > 1
    /\ smart_chunks.docs[1].metadata["page"] = smart_chunks.docs[2].metadata["page"]
    /\ smart_chunks.docs[NDocs].metadata["page"] # smart_chunks.docs[1].metadata["page"]

\* C11: the pages with a chunk in the output of process_pdf are exactly the
\* loaded pages whose cleaned length is at least 50, the chunks come in the
\* order of their pages, and a chunk's page is the 1-based position of its
\* page among the loaded ones, the skipped pages counted: a 3-page file whose
\* second page has length 10 and whose other pages are long yields chunks for
\* pages 1 and 3 only.
C11_SurvivingPagesInOrder ==
    Returned =>
        LET long_enough ==
                {k \in 1..Len(file.contents) :
                    Len(SmartPDFProcessor_clean_text(file.contents[k])) >= MinPageLength}
            chunk_pages == {smart_chunks.docs[i].metadata["page"] : i \in 1..NDocs}
        IN  /\ chunk_pages = long_enough
            /\ \A i \in 1..(NDocs - 1) :
                   smart_chunks.docs[i].metadata["page"]
                       <= smart_chunks.docs[i + 1].metadata["page"]
            /\ (/\ Len(file.contents) = 3
                /\ Len(file.contents[2]) = ShortPageLen
                /\ {1, 3} \subseteq long_enough) => chunk_pages = {1, 3}

C11_Witness ==
    /\ Returned
    /\ Len(file.contents) = 3
    /\ file.contents[2] = ShortPage
    /\ Len(file.contents[2]) = 10
    /\ {smart_chunks.docs[i].metadata["page"] : i \in 1..NDocs} = {1, 3}
    /\ \E i \in 1..(NDocs - 1) :
           /\ smart_chunks.docs[i].metadata["page"] = 1
           /\ smart_chunks.docs[i + 1].metadata["page"] = 3


\* C12: compare_pdf_loaders returns, never raising, a dictionary with exactly
\* the keys 'pypdf' and 'pymupdf', each entry with a boolean 'success' that is
\* the outcome of that loader alone; a failed PyPDFLoader is recorded as
\* success False with an 'error' string and PyMuPDFLoader is still tried, its
\* entry the same as when PyPDFLoader succeeds.
C12_BothLoadersReported ==
    pc # "compare" =>
        /\ DOMAIN comparison = {"pypdf", "pymupdf"}
        /\ \A k \in DOMAIN comparison :
               LET entry == comparison[k]
                   ok == IF k = "pypdf" THEN file.ok ELSE file.mupdf_ok
               IN  /\ entry.success \in BOOLEAN
                   /\ entry.success = ok
                   /\ ~ok => /\ DOMAIN entry = {"success", "error"}
                             /\ entry.error \in STRING
                   /\ ok => /\ DOMAIN entry = {"success", "pages", "first_page_length",
                                               "metadata_keys"}
                            /\ entry.pages = Len(file.contents)
        /\ pc = "construct" => raised = "none"

C12_Witness ==
    /\ pc # "compare"
    /\ ~file.ok
    /\ comparison.pypdf.success = FALSE
    /\ comparison.pypdf.error = "LoadError"
    /\ comparison.pymupdf.success = TRUE
    /\ comparison.pymupdf.pages = MaxPages
    /\ comparison.pymupdf.first_page_length >= MinPageLength

\* C13: in the output of process_pdf every chunk's char_count is the length
\* of the whole cleaned text of its page, so the chunks of one page carry the
\* same char_count, which no chunk's own length exceeds, and every chunk's
\* total_pages is the number of pages the loader returned, the skipped pages
\* counted.
C13_PageLevelCounts ==
    Returned =>
        LET cleaned_length ==
                [k \in 1..Len(file.contents) |->
                    Len(SmartPDFProcessor_clean_text(file.contents[k]))]
        IN  \A i \in 1..NDocs :
                LET doc == smart_chunks.docs[i]
                IN  /\ doc.metadata["page"] \in DOMAIN cleaned_length
                    /\ doc.metadata["char_count"] = cleaned_length[doc.metadata["page"]]
                    /\ Len(doc.page_content) <= doc.metadata["char_count"]
                    /\ doc.metadata["total_pages"] = Len(file.contents)
                    /\ \A j \in 1..NDocs :
                           smart_chunks.docs[j].metadata["page"] = doc.metadata["page"]
                               => smart_chunks.docs[j].metadata["char_count"]
                                      = doc.metadata["char_count"]

C13_Witness ==
    /\ Returned
    /\ \E i \in 1..(NDocs - 1) :
           /\ smart_chunks.docs[i].metadata["page"]
                  = smart_chunks.docs[i + 1].metadata["page"]
           /\ smart_chunks.docs[i].metadata["char_count"]
                  = smart_chunks.docs[i + 1].metadata["char_count"]
           /\ Len(smart_chunks.docs[i].page_content)
                  < smart_chunks.docs[i].metadata["char_count"]
           /\ smart_chunks.docs[i].metadata["char_count"]
                  < Len(file.contents[smart_chunks.docs[i].metadata["page"]])
           /\ smart_chunks.docs[i].metadata["total_pages"] = MaxPages
    /\ Cardinality({smart_chunks.docs[i].metadata["page"] : i \in 1..NDocs})
           < Len(file.contents)

-----------------------------------------------------------------------------
(* Properties of the normaliser.                                           *)

HasWhitespaceRun(s) ==
    \E i \in 1..(Len(s) - 1) : s[i] \in Whitespace /\ s[i + 1] \in Whitespace

\* The normalisation the documentation describes: whitespace runs collapsed,
\* each artifact replaced by its own expansion (the longer artifact first, as
\* the shorter one is its prefix), every other glyph kept.
ExpectedNormalize(t) ==
    Replace(Replace(Join(<<" ">>, Split(t)), FL_ARTIFACT, <<"f", "l">>),
            FI_ARTIFACT, <<"f", "i">>)

\* C3: clean_text and _clean_text replace every "fi" artifact by "fi" and every
\* "fl" artifact by "fl" and pass every other non-whitespace glyph through.
C3_LigaturesExpanded ==
    /\ cleaned # None => cleaned = ExpectedNormalize(text)
    /\ method # None => method = ExpectedNormalize(text)

\* C4: clean_text is idempotent: a second pass changes nothing.
C4_Idempotent ==
    twice # None => twice = cleaned /\ Len(twice) = Len(cleaned)

C4_Witness ==
    /\ twice # None
    /\ Contains(text, FI_ARTIFACT)
    /\ Len(cleaned) < Len(text)

=============================================================================
